---------------------------- MODULE Spec2Model ----------------------------
(***************************************************************************)
(* Model of the TTT agent orchestrator (src/src/agent/core.py) together    *)
(* with the part of the tool registry it reads (src/src/tools/registry.py).*)
(*                                                                         *)
(* TTTAgent keeps ONE AgentState (self.state, core.py:67) and hands that   *)
(* object to the workflow graph on every process_message call              *)
(* (core.py:371); the nodes mutate it in place and return it.  The graph   *)
(* is the one _build_workflow spells out (core.py:89-143): nodes joined by *)
(* edges and by routing functions.  Every node and every routing function  *)
(* is one action; pc[r] is the position of caller r's process_message      *)
(* call in the graph.  approve_tools, reject_tools and the registry        *)
(* operations are public entry points that other callers (the UI's button  *)
(* handlers, gradio_interface.py:264-279) run between the steps of a       *)
(* process_message call.                                                   *)
(***************************************************************************)
EXTENDS Naturals, Sequences, FiniteSets, TLC

(***************************************************************************)
(* Bounds of the model.                                                    *)
(***************************************************************************)
\* settings.max_iterations (config/settings.py:18, environment variable
\* MAX_ITERATIONS, default 10): the model runs with the setting at 2.
max_iterations == 2
\* longest tools list of a plan response
MaxPlanLen == 2
\* number of process_message calls made on the orchestrator
MaxMessages == 2

(***************************************************************************)
(* Names.                                                                  *)
(***************************************************************************)
\* tools registered by register_default_tools (default_tools.py:14-63)
ToolNames == {"read_file", "write_file"}
\* a name the plan may contain that was never registered
UnknownName == "no_such_tool"
PlanNames == ToolNames \cup {UnknownName}

\* class ToolPermission
ToolPermission == {"auto_approve", "require_confirmation", "blocked"}

\* class ExecutionPhase
ExecutionPhase == {"idle", "planning", "tool_selection", "awaiting_approval",
                   "executing", "reflecting", "completed", "error"}

\* The callers of process_message: caller r uses session SessionOf(r) and
\* task TaskOf(r).
Callers == {1, 2}
SessionOf(r) == IF r = 1 THEN "s1" ELSE "s2"
TaskOf(r) == IF r = 1 THEN "t1" ELSE "t2"

\* Reflection texts: what "complete" in reflection.lower() sees.
Reflections == {"task complete", "more steps needed"}

Range(s) == {s[i] : i \in DOMAIN s}

\* all tools lists a plan response can carry
Plans == UNION {[1..n -> PlanNames] : n \in 0..MaxPlanLen}

VARIABLES
    \* ToolRegistry
    tools,              \* _tools: name -> the fields of its ToolDefinition
    tool_names,         \* the keys of _tools in the order the dict keeps
                        \* them (insertion order)
    categories,         \* _categories: category -> sequence of names
    \* AgentState (self.state)
    messages,           \* sequence of the callers whose message was appended
    current_phase,
    selected_tools,
    tool_results,       \* name -> the "success" field of the recorded result
    pending_approvals,
    session_id,
    task_id,
    iteration_count,
    error_message,
    reflection,
    \* control state of each process_message call
    pc,                 \* position in the workflow graph
    exec_rest,          \* the part of the list _execution_node still iterates
    \* history
    plan_tools,         \* the tools list of the plan response, while the
                        \* cycle is between Planning and the routing after
                        \* ToolSelection
    exec_log,           \* what the Executing phase of the cycle did, in
                        \* order, until the routing after it
    decision,           \* the last external decision that named every
                        \* pending tool, while the cycle is in AwaitingApproval
    \* the components the orchestrator calls, each followed through one
    \* call; a component that is not followed is [pc |-> "idle"]
    memory,             \* MemoryManager (src/src/memory/manager.py): a
                        \* retrieve_relevant_context call
    llm,                \* GeminiClient (src/src/agent/gemini_client.py): a
                        \* generate_plan call made by _planning_node
    notification,       \* a _notify_phase_change call (core.py:77-87)
    call,               \* the last call made on the ToolRegistry: its
                        \* name, its argument, its result, its number
    \* what an observer of the run has seen; it is recorded by the
    \* specification that observes (SpecObserved) and left alone by the
    \* others
    observed            \* the phase of the last _notify_phase_change call,
                        \* the names approve_tools and reject_tools were
                        \* called with in the cycle, the phase of the call
                        \* that set error_message, and the number of
                        \* store_error calls of the call

registryVars == <<tools, tool_names, categories>>
stateVars == <<messages, current_phase, selected_tools, tool_results,
               pending_approvals, session_id, task_id, iteration_count,
               error_message, reflection>>
runVars == <<pc, exec_rest>>
historyVars == <<plan_tools, exec_log, decision>>
componentVars == <<memory, llm, notification, call>>
vars == <<registryVars, stateVars, runVars, historyVars, componentVars,
          observed>>

(***************************************************************************)
(* ToolRegistry queries.                                                   *)
(***************************************************************************)
has_tool(name) == name \in DOMAIN tools

\* dict.get: None for an unknown name
get_tool(name) == IF name \in DOMAIN tools THEN tools[name] ELSE "None"

\* The orchestrator and the registry after construction
\* (TTTAgent.__init__, register_default_tools).
AgentInit ==
    /\ tools = [n \in ToolNames |->
                  [function |-> n,
                   permission |-> IF n = "read_file" THEN "auto_approve"
                                  ELSE "require_confirmation",
                   category |-> "filesystem",
                   risk_level |-> IF n = "read_file" THEN 1 ELSE 3]]
    /\ tool_names = <<"read_file", "write_file">>
    /\ categories = [c \in {"filesystem"} |-> <<"read_file", "write_file">>]
    /\ messages = <<>>
    /\ current_phase = "idle"
    /\ selected_tools = <<>>
    /\ tool_results = [n \in {} |-> TRUE]
    /\ pending_approvals = <<>>
    /\ session_id = "s0"
    /\ task_id = "None"
    /\ iteration_count = 0
    /\ error_message = "None"
    /\ reflection = "None"
    /\ pc = [r \in Callers |-> "idle"]
    /\ exec_rest = [r \in Callers |-> <<>>]
    /\ plan_tools = <<>>
    /\ exec_log = <<>>
    /\ decision = "none"
    /\ observed = [notified |-> "none", approved |-> {}, rejected |-> {},
                   failed |-> "none", store_error |-> 0, completed |-> 0,
                   reflect_completed |-> "none"]

\* The retrieve_relevant_context call.
\* What each collection holds for the session, the task, the session:
\* records in the order a query ranks them, nearest first
conversation_collection == memory.conversation_collection
task_collection == memory.task_collection
interaction_collection == memory.interaction_collection
\* the task_id and limit arguments
context_task_id == memory.task_id
limit == memory.limit
\* the collection whose query raises, or "none"
source_fails == memory.source_fails
\* the list the call returned
context == memory.context
memory_pc == memory.pc

\* The generate_plan call.
\* what model.generate_content does on each attempt
transport == llm.transport
\* the text of the response it gives when it succeeds
response_text == llm.response_text
\* the prompts handed to model.generate_content
requests == llm.requests
\* the seconds the retry slept between the attempts, in order
waits == llm.waits
\* how _make_request ended
request_result == llm.request_result
\* what generate_plan returned
plan_response == llm.plan_response
llm_pc == llm.pc

\* The _notify_phase_change call.
\* the phase the call announces
new_phase == notification.new_phase
\* the callbacks registered for it, in the order add_phase_callback
\* appended them
phase_callbacks == notification.phase_callbacks
\* the part of the list the loop still iterates
callbacks_rest == notification.callbacks_rest
\* the callbacks the loop has called, in order
callbacks_called == notification.callbacks_called
\* the callbacks whose exception was printed
callback_errors == notification.callback_errors
notify_pc == notification.pc

\* how many calls were made on the registry
calls == call.number

\* No retrieve_relevant_context call is being followed.
MemoryIdle == memory = [pc |-> "idle"]

\* No generate_plan call is being followed.
LLMIdle == llm = [pc |-> "idle"]

\* No _notify_phase_change call is being followed.
NotifyIdle == notification = [pc |-> "idle"]

\* No call on the registry is recorded.
CallIdle == call = [op |-> "none", name |-> "none", result |-> "none",
                    number |-> 0]

Init == AgentInit /\ MemoryIdle /\ LLMIdle /\ NotifyIdle /\ CallIdle

(***************************************************************************)
(* Helpers on sequences.                                                   *)
(***************************************************************************)
\* [tool for tool in seq if tool not in names]
Without(seq, names) == SelectSeq(seq, LAMBDA t : t \notin names)

\* callers whose process_message call is inside the workflow or about to
\* fire the final notification
Active(r) == pc[r] \notin {"idle", "returned", "raised"}

(***************************************************************************)
(* process_message, up to the start of the workflow.                       *)
(***************************************************************************)
process_message(r) ==
    /\ pc[r] \in {"idle", "returned", "raised"}
    /\ Len(messages) < MaxMessages
    /\ session_id' = SessionOf(r)
    /\ task_id' = TaskOf(r)
    /\ messages' = Append(messages, r)
    /\ pc' = [pc EXCEPT ![r] = "planning"]
    /\ UNCHANGED <<registryVars, current_phase, selected_tools,
                   tool_results, pending_approvals, iteration_count,
                   error_message, reflection, exec_rest, historyVars,
                   componentVars>>

(***************************************************************************)
(* _planning_node.  The plan response is an input: generate_plan returns   *)
(* a structure in every case (its own failures give tools == []).  The     *)
(* node's except branch is taken when the memory lookup raises outside     *)
(* retrieve_relevant_context's own try (manager.py:259-260).               *)
(***************************************************************************)
planning_node(r) ==
    /\ pc[r] = "planning"
    /\ \/ \E p \in Plans :
            /\ plan_tools' = p
            /\ selected_tools' = p
            /\ current_phase' = "planning"
            /\ UNCHANGED error_message
       \/ /\ error_message' = "Planning error"
          /\ current_phase' = "error"
          /\ UNCHANGED <<plan_tools, selected_tools>>
    /\ pc' = [pc EXCEPT ![r] = "tool_selection"]
    /\ exec_log' = <<>>
    /\ decision' = "none"
    /\ UNCHANGED <<registryVars, messages, tool_results, pending_approvals,
                   session_id, task_id, iteration_count, reflection,
                   exec_rest,
                   componentVars>>

(***************************************************************************)
(* _tool_selection_node.                                                   *)
(***************************************************************************)
valid_tools_keep_all(sel) == sel

valid_tools(sel) == SelectSeq(sel, has_tool)

tool_selection_node(r) ==
    /\ pc[r] = "tool_selection"
    /\ current_phase' = "tool_selection"
    /\ selected_tools' = valid_tools(selected_tools)
    /\ pc' = [pc EXCEPT ![r] = "route_selection"]
    /\ UNCHANGED <<registryVars, messages, tool_results,
                   pending_approvals, session_id, task_id, iteration_count,
                   error_message, reflection, exec_rest, historyVars,
                   componentVars>>

(***************************************************************************)
(* _should_continue_to_approval, the routing function after                *)
(* tool_selection.                                                         *)
(***************************************************************************)
should_continue_to_approval_ignores_permission ==
    IF selected_tools = <<>> THEN "end" ELSE "execute"

should_continue_to_approval ==
    IF selected_tools = <<>> THEN "end"
    ELSE IF \E i \in DOMAIN selected_tools :
               /\ has_tool(selected_tools[i])
               /\ get_tool(selected_tools[i]).permission = "require_confirmation"
         THEN "approval"
         ELSE "execute"

route_selection(r) ==
    /\ pc[r] = "route_selection"
    /\ pc' = [pc EXCEPT ![r] =
                CASE should_continue_to_approval = "end" -> "end"
                  [] should_continue_to_approval = "approval" -> "approval_check"
                  [] OTHER -> "execution"]
    /\ plan_tools' = <<>>
    /\ UNCHANGED <<registryVars, stateVars, exec_rest, exec_log, decision,
                   componentVars>>

(***************************************************************************)
(* _approval_check_node.  get_tool gives None for a name that is no longer *)
(* registered, and reading .permission of it raises out of the node, the   *)
(* workflow and process_message before pending_approvals is assigned.      *)
(***************************************************************************)
approval_check_node(r) ==
    /\ pc[r] = "approval_check"
    /\ current_phase' = "awaiting_approval"
    /\ IF \A i \in DOMAIN selected_tools : has_tool(selected_tools[i])
       THEN /\ pending_approvals' =
                  SelectSeq(selected_tools,
                            LAMBDA t : get_tool(t).permission = "require_confirmation")
            /\ pc' = [pc EXCEPT ![r] = "approval_decision"]
            /\ UNCHANGED decision
       ELSE /\ pc' = [pc EXCEPT ![r] = "raised"]
            /\ decision' = "none"
            /\ UNCHANGED pending_approvals
    /\ UNCHANGED <<registryVars, messages, selected_tools, tool_results,
                   session_id, task_id, iteration_count, error_message,
                   reflection, exec_rest, plan_tools, exec_log,
                   componentVars>>

(***************************************************************************)
(* _approval_decision, the routing function after approval_check.  It      *)
(* never answers "rejected".                                               *)
(***************************************************************************)
approval_decision ==
    IF pending_approvals = <<>> THEN "approved" ELSE "waiting"

route_approval(r) ==
    /\ pc[r] = "approval_decision"
    /\ pc' = [pc EXCEPT ![r] =
                IF approval_decision = "approved" THEN "execution"
                ELSE "approval_check"]
    /\ UNCHANGED <<registryVars, stateVars, exec_rest, historyVars,
                   componentVars>>

(***************************************************************************)
(* _execution_node.  The node fires the Executing notification and then    *)
(* iterates the list object selected_tools names at that moment; each      *)
(* tool is awaited, so other entry points run between two tools.  One      *)
(* step of the loop is one action.  The except branch of the node is not   *)
(* reachable: _execute_tool catches what a capability raises, and a        *)
(* lookup of an unregistered name gives None, whose .function raises       *)
(* inside _execute_tool's own try (core.py:350-354).                       *)
(***************************************************************************)
execution_node(r) ==
    /\ pc[r] = "execution"
    /\ current_phase' = "executing"
    /\ exec_rest' = [exec_rest EXCEPT ![r] = selected_tools]
    /\ exec_log' = <<>>
    /\ decision' = "none"
    /\ pc' = [pc EXCEPT ![r] = "executing"]
    /\ UNCHANGED <<registryVars, messages, selected_tools, tool_results,
                   pending_approvals, session_id, task_id, iteration_count,
                   error_message, reflection, plan_tools,
                   componentVars>>

\* if tool_name not in state.pending_approvals
not_pending_unchecked(tool_name) == TRUE

not_pending(tool_name) == tool_name \notin Range(pending_approvals)

\* _execute_tool: the "success" field of the result it returns
execute_tool(tool_name, raises) ==
    IF has_tool(tool_name) /\ ~raises THEN TRUE ELSE FALSE

execution_step(r) ==
    /\ pc[r] = "executing"
    /\ exec_rest[r] # <<>>
    /\ LET tool_name == Head(exec_rest[r]) IN
         IF not_pending(tool_name)
         THEN \E raises \in BOOLEAN :
                LET success == execute_tool(tool_name, raises) IN
                  /\ tool_results' =
                       [n \in DOMAIN tool_results \cup {tool_name} |->
                          IF n = tool_name THEN success ELSE tool_results[n]]
                  /\ exec_log' = Append(exec_log,
                       [tool |-> tool_name,
                        outcome |-> IF has_tool(tool_name) /\ ~raises
                                    THEN "returned" ELSE "raised"])
         ELSE /\ exec_log' = Append(exec_log,
                       [tool |-> tool_name, outcome |-> "skipped"])
              /\ UNCHANGED tool_results
    /\ exec_rest' = [exec_rest EXCEPT ![r] = Tail(exec_rest[r])]
    /\ UNCHANGED <<registryVars, messages, current_phase, selected_tools,
                   pending_approvals, session_id, task_id, iteration_count,
                   error_message, reflection, pc, plan_tools, decision,
                   componentVars>>

execution_return(r) ==
    /\ pc[r] = "executing"
    /\ exec_rest[r] = <<>>
    /\ pc' = [pc EXCEPT ![r] = "execution_decision"]
    /\ UNCHANGED <<registryVars, stateVars, exec_rest, historyVars,
                   componentVars>>

(***************************************************************************)
(* _execution_decision, the routing function after execution.              *)
(***************************************************************************)
execution_decision_fails_on_tool_failure ==
    IF error_message # "None" \/ \E n \in DOMAIN tool_results : ~tool_results[n]
    THEN "error" ELSE "continue"

execution_decision ==
    IF error_message # "None" THEN "error" ELSE "continue"

route_execution(r) ==
    /\ pc[r] = "execution_decision"
    /\ pc' = [pc EXCEPT ![r] =
                IF execution_decision = "error" THEN "error_handling"
                ELSE "reflection"]
    /\ exec_log' = <<>>
    /\ UNCHANGED <<registryVars, stateVars, exec_rest, plan_tools, decision,
                   componentVars>>

(***************************************************************************)
(* _reflection_node.  reflect_on_results returns a structure in every      *)
(* case; store_interaction has no handler of its own (manager.py:173-215)  *)
(* and what it raises leaves the node after iteration_count was changed.   *)
(***************************************************************************)
reflection_node(r) ==
    /\ pc[r] = "reflection"
    /\ current_phase' = "reflecting"
    /\ \E text \in Reflections : reflection' = text
    /\ iteration_count' = iteration_count + 1
    /\ \E store_raises \in BOOLEAN :
         pc' = [pc EXCEPT ![r] = IF store_raises THEN "raised"
                                 ELSE "should_continue"]
    /\ UNCHANGED <<registryVars, messages, selected_tools, tool_results,
                   pending_approvals, session_id, task_id, error_message,
                   exec_rest, historyVars,
                   componentVars>>

(***************************************************************************)
(* _should_continue, the routing function after reflection.                *)
(***************************************************************************)
indicates_completion(text) == text = "task complete"

should_continue_reads_completed ==
    IF iteration_count >= max_iterations THEN "end"
    ELSE IF observed.reflect_completed = "True" THEN "end"
    ELSE IF reflection # "None" /\ indicates_completion(reflection) THEN "end"
    ELSE "continue"

should_continue ==
    IF iteration_count >= max_iterations THEN "end"
    ELSE IF reflection # "None" /\ indicates_completion(reflection) THEN "end"
    ELSE "continue"

route_reflection(r) ==
    /\ pc[r] = "should_continue"
    /\ pc' = [pc EXCEPT ![r] =
                IF should_continue = "continue" THEN "planning" ELSE "end"]
    /\ UNCHANGED <<registryVars, stateVars, exec_rest, historyVars,
                   componentVars>>

(***************************************************************************)
(* _error_handling_node; store_error has no handler either                 *)
(* (manager.py:404-429).                                                   *)
(***************************************************************************)
error_handling_node(r) ==
    /\ pc[r] = "error_handling"
    /\ current_phase' = "error"
    /\ \E store_raises \in BOOLEAN :
         pc' = [pc EXCEPT ![r] = IF store_raises THEN "raised" ELSE "end"]
    /\ UNCHANGED <<registryVars, messages, selected_tools, tool_results,
                   pending_approvals, session_id, task_id, iteration_count,
                   error_message, reflection, exec_rest, historyVars,
                   componentVars>>

(***************************************************************************)
(* process_message after the workflow ended: the Completed notification    *)
(* and the return of the state.                                            *)
(***************************************************************************)
process_message_return_keeps_phase(r) ==
    /\ pc[r] = "end"
    /\ pc' = [pc EXCEPT ![r] = "returned"]
    /\ UNCHANGED <<registryVars, stateVars, exec_rest, historyVars,
                   componentVars>>

process_message_return(r) ==
    /\ pc[r] = "end"
    /\ current_phase' = "completed"
    /\ pc' = [pc EXCEPT ![r] = "returned"]
    /\ UNCHANGED <<registryVars, messages, selected_tools, tool_results,
                   pending_approvals, session_id, task_id, iteration_count,
                   error_message, reflection, exec_rest, historyVars,
                   componentVars>>

(***************************************************************************)
(* approve_tools and reject_tools.  decision records a call that, made     *)
(* while the state is in AwaitingApproval with tools pending, names every  *)
(* pending tool.                                                           *)
(***************************************************************************)
NameSets == SUBSET ToolNames \ {{}}

DecidesAll(names) ==
    /\ current_phase = "awaiting_approval"
    /\ pending_approvals # <<>>
    /\ Range(pending_approvals) \subseteq names

approve_tools_clears_pending(approved_tools) ==
    /\ pending_approvals' = <<>>
    /\ decision' = IF DecidesAll(approved_tools) THEN "approved_all" ELSE decision
    /\ UNCHANGED <<registryVars, messages, current_phase, selected_tools,
                   tool_results, session_id, task_id, iteration_count,
                   error_message, reflection, runVars, plan_tools, exec_log,
                   componentVars>>

approve_tools(approved_tools) ==
    /\ pending_approvals' = Without(pending_approvals, approved_tools)
    /\ decision' = IF DecidesAll(approved_tools) THEN "approved_all" ELSE decision
    /\ UNCHANGED <<registryVars, messages, current_phase, selected_tools,
                   tool_results, session_id, task_id, iteration_count,
                   error_message, reflection, runVars, plan_tools, exec_log,
                   componentVars>>

reject_tools_from_pending(rejected_tools) ==
    /\ pending_approvals' = Without(pending_approvals, rejected_tools)
    /\ decision' = IF DecidesAll(rejected_tools) THEN "rejected_all" ELSE decision
    /\ UNCHANGED <<registryVars, messages, current_phase, selected_tools,
                   tool_results, session_id, task_id, iteration_count,
                   error_message, reflection, runVars, plan_tools, exec_log,
                   componentVars>>

reject_tools(rejected_tools) ==
    /\ selected_tools' = Without(selected_tools, rejected_tools)
    /\ decision' = IF DecidesAll(rejected_tools) THEN "rejected_all" ELSE decision
    /\ UNCHANGED <<registryVars, messages, current_phase, tool_results,
                   pending_approvals, session_id, task_id, iteration_count,
                   error_message, reflection, runVars, plan_tools, exec_log,
                   componentVars>>

(***************************************************************************)
(* ToolRegistry.register_tool, unregister_tool and set_tool_permission     *)
(* (registry.py:15-56, 78-83): what each does to the registry, and what    *)
(* it returns.  The record of the call (call, calls) is left to the        *)
(* specification that makes the call.                                      *)
(***************************************************************************)
\* frame of a registry operation
notRegistry == <<stateVars, runVars, historyVars, memory, llm, notification>>

\* self._tools[name] = tool_def, then the category index
register_tool(name, definition) ==
    /\ tools' = [n \in DOMAIN tools \cup {name} |->
                   IF n = name THEN definition ELSE tools[n]]
    /\ tool_names' = IF name \in DOMAIN tools THEN tool_names
                     ELSE Append(tool_names, name)
    /\ LET category == definition.category
           with_category ==
               [c \in DOMAIN categories \cup {category} |->
                  IF c \in DOMAIN categories THEN categories[c] ELSE <<>>]
       IN categories' =
            IF name \in Range(with_category[category]) THEN with_category
            ELSE [with_category EXCEPT ![category] = Append(@, name)]
    /\ UNCHANGED notRegistry

register_tool_result(name) == "None"

set_tool_permission_registers_unknown(name, permission) ==
    /\ tools' = [n \in DOMAIN tools \cup {name} |->
                   IF n = name
                   THEN [function |-> name, permission |-> permission,
                         category |-> "general", risk_level |-> 1]
                   ELSE tools[n]]
    /\ UNCHANGED <<tool_names, categories, notRegistry>>

set_tool_permission(name, permission) ==
    /\ IF name \in DOMAIN tools
       THEN tools' = [tools EXCEPT ![name].permission = permission]
       ELSE UNCHANGED tools
    /\ UNCHANGED <<tool_names, categories, notRegistry>>

set_tool_permission_result(name) ==
    IF name \in DOMAIN tools THEN "True" ELSE "False"

\* list.remove takes the first occurrence out; register_tool never appends
\* a name a list already holds
unregister_tool(name) ==
    /\ IF name \in DOMAIN tools
       THEN /\ tools' = [n \in DOMAIN tools \ {name} |-> tools[n]]
            /\ tool_names' = Without(tool_names, {name})
            /\ categories' =
                 IF tools[name].category \in DOMAIN categories
                 THEN [categories EXCEPT
                         ![tools[name].category] = Without(@, {name})]
                 ELSE categories
       ELSE UNCHANGED registryVars
    /\ UNCHANGED notRegistry

unregister_tool_result(name) ==
    IF name \in DOMAIN tools THEN "True" ELSE "False"

\* list_tools
list_tools == tool_names

\* get_tools_by_category
get_tools_by_category(category) ==
    IF category \in DOMAIN categories THEN categories[category] ELSE <<>>

(***************************************************************************)
(* Specifications.  Spec: one caller, whose process_message calls follow   *)
(* one another, with approvals, rejections and registry updates arriving   *)
(* at any moment.  SpecConcurrent: two callers with different sessions     *)
(* whose process_message calls interleave on the one orchestrator.         *)
(***************************************************************************)
\* the steps of caller r's process_message call, unobserved
Workflow(r) ==
    \/ process_message(r) /\ UNCHANGED observed
    \/ planning_node(r) /\ UNCHANGED observed
    \/ tool_selection_node(r) /\ UNCHANGED observed
    \/ route_selection(r) /\ UNCHANGED observed
    \/ approval_check_node(r) /\ UNCHANGED observed
    \/ route_approval(r) /\ UNCHANGED observed
    \/ execution_node(r) /\ UNCHANGED observed
    \/ execution_step(r) /\ UNCHANGED observed
    \/ execution_return(r) /\ UNCHANGED observed
    \/ route_execution(r) /\ UNCHANGED observed
    \/ reflection_node(r) /\ UNCHANGED observed
    \/ route_reflection(r) /\ UNCHANGED observed
    \/ error_handling_node(r) /\ UNCHANGED observed
    \/ process_message_return(r) /\ UNCHANGED observed

\* The permissions the host sets while a call is in flight.
SetPermissions == {"auto_approve", "require_confirmation"}

\* The host resolves an approval while the state is in AwaitingApproval;
\* it updates the registry at any moment, giving a registered tool another
\* permission or taking a registered tool out.
RegistryUpdate ==
    \/ /\ \E name \in DOMAIN tools :
            \E permission \in SetPermissions \ {tools[name].permission} :
              set_tool_permission(name, permission)
       /\ UNCHANGED <<call, observed>>
    \/ /\ \E name \in DOMAIN tools : unregister_tool(name)
       /\ UNCHANGED <<call, observed>>

External ==
    \/ /\ current_phase = "awaiting_approval"
       /\ \E names \in NameSets : approve_tools(names)
       /\ UNCHANGED observed
    \/ /\ current_phase = "awaiting_approval"
       /\ \E names \in NameSets : reject_tools(names)
       /\ UNCHANGED observed
    \/ RegistryUpdate

\* External calls made while no process_message call is in flight have the
\* effect of the same calls made right after the next call has appended
\* its message, so they are taken there.
Next == Workflow(1) \/ (Active(1) /\ External)

Spec == Init /\ [][Next]_vars

(***************************************************************************)
(* The orchestrator on a registry in which set_tool_permission has set one *)
(* of the default tools to BLOCKED before the first message.               *)
(***************************************************************************)
InitBlocked ==
    /\ \E name \in ToolNames :
          tools = [n \in ToolNames |->
                     [function |-> n,
                      permission |-> IF n = name THEN "blocked"
                                     ELSE IF n = "read_file" THEN "auto_approve"
                                     ELSE "require_confirmation",
                      category |-> "filesystem",
                      risk_level |-> IF n = "read_file" THEN 1 ELSE 3]]
    /\ tool_names = <<"read_file", "write_file">>
    /\ categories = [c \in {"filesystem"} |-> <<"read_file", "write_file">>]
    /\ messages = <<>>
    /\ current_phase = "idle"
    /\ selected_tools = <<>>
    /\ tool_results = [n \in {} |-> TRUE]
    /\ pending_approvals = <<>>
    /\ session_id = "s0"
    /\ task_id = "None"
    /\ iteration_count = 0
    /\ error_message = "None"
    /\ reflection = "None"
    /\ pc = [r \in Callers |-> "idle"]
    /\ exec_rest = [r \in Callers |-> <<>>]
    /\ plan_tools = <<>>
    /\ exec_log = <<>>
    /\ decision = "none"
    /\ observed = [notified |-> "none", approved |-> {}, rejected |-> {},
                   failed |-> "none", store_error |-> 0, completed |-> 0,
                   reflect_completed |-> "none"]
    /\ MemoryIdle
    /\ LLMIdle
    /\ NotifyIdle
    /\ CallIdle

SpecBlocked == InitBlocked /\ [][Next]_vars

NextConcurrent == \E r \in Callers : Workflow(r)

SpecConcurrent == Init /\ [][NextConcurrent]_vars

(***************************************************************************)
(* The run of Spec with its observer.  observed.notified is the phase of   *)
(* the last _notify_phase_change call: every node starts with one          *)
(* (core.py:147, 175, 188, 201, 220, 246) and process_message ends with    *)
(* one (core.py:373); the except branches assign current_phase themselves  *)
(* (core.py:170, 215).  observed.approved and observed.rejected are the    *)
(* names approve_tools and reject_tools were called with since the cycle   *)
(* began in _planning_node.  observed.failed is the phase of the           *)
(* process_message call whose except branch set error_message, and         *)
(* observed.store_error counts the memory.store_error calls of the call    *)
(* (core.py:256).                                                          *)
(***************************************************************************)
\* the phase the step at position p announces; "none" for a step that
\* makes no _notify_phase_change call
notifies(p) ==
    CASE p = "planning" -> "planning"
      [] p = "tool_selection" -> "tool_selection"
      [] p = "approval_check" -> "awaiting_approval"
      [] p = "execution" -> "executing"
      [] p = "reflection" -> "reflecting"
      [] p = "error_handling" -> "error"
      [] p = "end" -> "completed"
      [] OTHER -> "none"

\* the "completed" field of the structure reflect_on_results returns to
\* _reflection_node (gemini_client.py:183-203): any flag of the response,
\* False by default; the last one returned in the call is recorded
reflect_on_results_completed(r) ==
    IF pc[r] = "reflection" THEN {"True", "False"}
    ELSE IF ~Active(r) THEN {"none"}
    ELSE {observed.reflect_completed}

\* what the observer records of a step of caller r's process_message call
observe_workflow(r) ==
    \E flag \in reflect_on_results_completed(r) : observed' =
      [notified |-> IF notifies(pc[r]) # "none" THEN notifies(pc[r])
                    ELSE observed.notified,
       approved |-> IF pc[r] = "planning" THEN {} ELSE observed.approved,
       rejected |-> IF pc[r] = "planning" THEN {} ELSE observed.rejected,
       failed |-> IF ~Active(r) THEN "none"
                  ELSE IF pc[r] = "planning" /\ current_phase' = "error"
                  THEN "planning"
                  ELSE observed.failed,
       store_error |-> IF ~Active(r) THEN 0
                       ELSE IF pc[r] = "error_handling"
                       THEN observed.store_error + 1
                       ELSE observed.store_error,
       completed |-> IF ~Active(r) THEN 0
                     ELSE IF notifies(pc[r]) = "completed"
                     THEN observed.completed + 1
                     ELSE observed.completed,
       reflect_completed |-> flag]

\* the steps of caller r's process_message call, observed
WorkflowObserved(r) ==
    \/ process_message(r) /\ observe_workflow(r)
    \/ planning_node(r) /\ observe_workflow(r)
    \/ tool_selection_node(r) /\ observe_workflow(r)
    \/ route_selection(r) /\ observe_workflow(r)
    \/ approval_check_node(r) /\ observe_workflow(r)
    \/ route_approval(r) /\ observe_workflow(r)
    \/ execution_node(r) /\ observe_workflow(r)
    \/ execution_step(r) /\ observe_workflow(r)
    \/ execution_return(r) /\ observe_workflow(r)
    \/ route_execution(r) /\ observe_workflow(r)
    \/ reflection_node(r) /\ observe_workflow(r)
    \/ route_reflection(r) /\ observe_workflow(r)
    \/ error_handling_node(r) /\ observe_workflow(r)
    \/ process_message_return(r) /\ observe_workflow(r)

NextObserved ==
    \/ WorkflowObserved(1)
    \/ /\ Active(1)
       /\ current_phase = "awaiting_approval"
       /\ \E names \in NameSets :
            /\ approve_tools(names)
            /\ observed' = [observed EXCEPT !.approved = @ \cup names]
    \/ /\ Active(1)
       /\ current_phase = "awaiting_approval"
       /\ \E names \in NameSets :
            /\ reject_tools(names)
            /\ observed' = [observed EXCEPT !.rejected = @ \cup names]
    \/ /\ Active(1)
       /\ RegistryUpdate

SpecObserved == Init /\ [][NextObserved]_vars

(***************************************************************************)
(* MemoryManager.retrieve_relevant_context (manager.py:251-325).  A        *)
(* collection is the sequence of the records it holds that match the       *)
(* query's where clause, in the order the query ranks them (nearest        *)
(* first); a record is [record, distance], where record tells which store  *)
(* call wrote it: store_conversation, store_task_memory, store_interaction *)
(* ("interaction") or store_error ("error").  store_interaction and        *)
(* store_error both add to interaction_collection (manager.py:209, 425);   *)
(* store_task_memory upserts under the task's id (manager.py:167-171), so  *)
(* task_collection holds at most one record of a task.                     *)
(***************************************************************************)
\* distances of the records, in tenths
Distances == {1, 5, 9}
\* most records one collection holds for a query
MaxStored == 3
\* largest limit argument
MaxLimit == 3

\* n_results of the three queries: min(limit, 3), 1, min(limit, 2)
ConversationResults == 3
TaskResults == 1
InteractionResults == 2

Min(a, b) == IF a <= b THEN a ELSE b

Sources == {"conversation", "task", "interaction"}

Records(kinds) == [record : kinds, distance : Distances]

\* the sequences of at most n records of these kinds, nearest first
Ranked(kinds, n) ==
    {c \in UNION {[1..k -> Records(kinds)] : k \in 0..n} :
        \A i \in 1..(Len(c) - 1) : c[i].distance <= c[i + 1].distance}

\* collection.query(..., n_results=n): the n nearest matching records
query(collection, n_results) ==
    SubSeq(collection, 1, Min(n_results, Len(collection)))

\* the loop over a query's results: one context item per record, in the
\* order of the results; n is the record's place in them
items(type, results) ==
    [i \in DOMAIN results |->
        [type |-> type, distance |-> results[i].distance, n |-> i]]

\* metadata["tools_executed"] (manager.py:315): the key is written by
\* store_interaction (manager.py:194) and not by store_error
\* (manager.py:416-421)
has_tools_executed(rec) == rec.record = "interaction"

\* list.sort(key=distance): stable, ascending
RECURSIVE sort_by_distance(_)
insert_by_distance(item, sorted) ==
    LET before == SelectSeq(sorted, LAMBDA x : x.distance <= item.distance)
        after == SelectSeq(sorted, LAMBDA x : x.distance > item.distance)
    IN before \o <<item>> \o after
sort_by_distance(seq) ==
    IF seq = <<>> THEN <<>>
    ELSE insert_by_distance(seq[Len(seq)],
                            sort_by_distance(SubSeq(seq, 1, Len(seq) - 1)))

\* context[:limit]
truncate(seq, n) == SubSeq(seq, 1, Min(n, Len(seq)))

\* what each query of the call returns
conv_results == query(conversation_collection, Min(limit, ConversationResults))
task_results ==
    IF context_task_id # "None" THEN query(task_collection, TaskResults)
    ELSE <<>>
interaction_results ==
    query(interaction_collection, Min(limit, InteractionResults))

\* one try block encloses the three queries, the loops and the sort
\* (manager.py:264-325): whatever is raised inside it ends the call
\* with []
raises_in_try ==
    \/ source_fails \in {"conversation", "interaction"}
    \/ source_fails = "task" /\ context_task_id # "None"
    \/ \E i \in DOMAIN interaction_results :
         ~has_tools_executed(interaction_results[i])

retrieve_relevant_context ==
    /\ memory_pc = "called"
    /\ memory' =
         [memory EXCEPT
            !.context =
               IF raises_in_try THEN <<>>
               ELSE truncate(sort_by_distance(
                                 items("conversation", conv_results)
                                 \o items("task", task_results)
                                 \o items("interaction", interaction_results)),
                             limit),
            !.pc = "returned"]
    /\ UNCHANGED <<registryVars, stateVars, runVars, historyVars, llm,
                   notification, call>>

\* a call of retrieve_relevant_context on collections that were
\* initialized, with any contents, arguments and failing source
InitMemory ==
    /\ AgentInit
    /\ memory \in [conversation_collection : Ranked({"conversation"}, MaxStored),
                    task_collection : Ranked({"task"}, 1),
                    interaction_collection :
                        Ranked({"interaction", "error"}, MaxStored),
                    task_id : {"None", "t1"},
                    limit : 0..MaxLimit,
                    source_fails : Sources \cup {"none"},
                    context : {<<>>},
                    pc : {"called"}]
    /\ LLMIdle
    /\ NotifyIdle
    /\ CallIdle

NextMemory == retrieve_relevant_context /\ UNCHANGED observed

SpecMemory == InitMemory /\ [][NextMemory]_vars

(***************************************************************************)
(* GeminiClient._make_request and GeminiClient.generate_plan               *)
(* (gemini_client.py:52-135), as _planning_node calls them                 *)
(* (core.py:159-166).                                                      *)
(*                                                                         *)
(* A response text is a sequence of tokens: the fence marker with the      *)
(* json label ("fence_json"), the bare fence marker of three backquotes    *)
(* ("fence"), and pieces of content between them, each either a JSON       *)
(* object with some of the fields plan, tools, reasoning, a JSON value     *)
(* that is not an object (an array), or prose.  str.find of the bare       *)
(* marker also finds the first three characters of the labelled one.       *)
(***************************************************************************)
\* stop_after_attempt(3)
MaxAttempts == 3
\* most tokens of a response text
MaxTextLen == 3

Fields == {"plan", "tools", "reasoning"}

FenceJson == [kind |-> "fence_json", fields |-> {}]
Fence == [kind |-> "fence", fields |-> {}]
Object(fs) == [kind |-> "object", fields |-> fs]
Array == [kind |-> "array", fields |-> {}]
Prose == [kind |-> "prose", fields |-> {}]
\* a piece of content without its last character
Cut == [kind |-> "cut", fields |-> {}]

Tokens == {FenceJson, Fence, Array, Prose} \cup {Object(fs) : fs \in SUBSET Fields}

Texts == UNION {[1..n -> Tokens] : n \in 0..MaxTextLen}

\* the "tools" value of the objects in the responses
ObjectTools == <<"read_file">>
\* f"Generated {field}" for field "tools": a string, which the loop of
\* _tool_selection_node iterates character by character
GeneratedTools == <<"G", "e", "n", "e", "r", "a", "t", "e", "d", " ",
                    "t", "o", "o", "l", "s">>

\* the prompt handed to _make_request
full_prompt == "full_prompt"

\* str.find / str.rfind on the tokens: 0 stands for -1
find(text, kinds, from) ==
    IF \E i \in from..Len(text) : text[i].kind \in kinds
    THEN CHOOSE i \in from..Len(text) :
           /\ text[i].kind \in kinds
           /\ \A j \in from..(i - 1) : text[j].kind \notin kinds
    ELSE 0

rfind(text, kinds) ==
    IF \E i \in DOMAIN text : text[i].kind \in kinds
    THEN CHOOSE i \in DOMAIN text :
           /\ text[i].kind \in kinds
           /\ \A j \in (i + 1)..Len(text) : text[j].kind \notin kinds
    ELSE 0

\* text[json_start:-1]: everything after the marker but the last character
drop_last_character(text, after) ==
    IF after >= Len(text) THEN <<>>
    ELSE SubSeq(text, after + 1, Len(text) - 1) \o <<Cut>>

\* gemini_client.py:101-108: what json.loads is given
extract(text) ==
    IF find(text, {"fence_json"}, 1) # 0
    THEN LET json_start == find(text, {"fence_json"}, 1)
             json_end == find(text, {"fence_json", "fence"}, json_start + 1)
         IN IF json_end = 0 THEN drop_last_character(text, json_start)
            ELSE SubSeq(text, json_start + 1, json_end - 1)
    ELSE IF find(text, {"fence"}, 1) # 0
    THEN LET json_start == find(text, {"fence"}, 1)
             json_end == rfind(text, {"fence"})
         IN SubSeq(text, json_start + 1, json_end - 1)
    ELSE text

\* json.loads: "object" or "array" for the value it returns, "error" when
\* it raises JSONDecodeError (no value, or more than one)
json_loads(text) ==
    IF Len(text) = 1 /\ text[1].kind \in {"object", "array"}
    THEN text[1].kind
    ELSE "error"

\* the structure generate_plan returns on a response text
\* (gemini_client.py:98-135).  On a JSON value that is not an object, the
\* loop over required_fields raises TypeError, which the outer except
\* turns into the error structure.
parse_plan(text) ==
    LET extracted == extract(text) IN
      CASE json_loads(extracted) = "object" ->
             [plan |-> IF "plan" \in extracted[1].fields
                       THEN [kind |-> "parsed", text |-> <<>>]
                       ELSE [kind |-> "Generated plan", text |-> <<>>],
              tools |-> IF "tools" \in extracted[1].fields
                        THEN ObjectTools ELSE GeneratedTools,
              reasoning |-> IF "reasoning" \in extracted[1].fields
                            THEN "parsed" ELSE "Generated reasoning"]
        [] json_loads(extracted) = "array" ->
             [plan |-> [kind |-> "Error generating plan", text |-> <<>>],
              tools |-> <<>>,
              reasoning |-> "Error occurred during planning"]
        [] OTHER ->
             [plan |-> [kind |-> "response_text", text |-> extracted],
              tools |-> <<>>,
              reasoning |-> "Fallback parsing - could not extract JSON"]

\* _planning_node up to the generate_plan call (core.py:147-162)
planning_calls_generate_plan ==
    /\ llm_pc = "planning"
    /\ current_phase' = "planning"
    /\ llm' = [llm EXCEPT !.pc = "request"]
    /\ UNCHANGED <<registryVars, messages, selected_tools, tool_results,
                   pending_approvals, session_id, task_id, iteration_count,
                   error_message, reflection, runVars, historyVars,
                   memory, notification, call>>

\* stop=stop_after_attempt(3): no attempt follows the third
stop_after_two_attempts(attempt) == attempt >= 2

stop(attempt) == attempt >= MaxAttempts

\* wait=wait_exponential(multiplier=1, min=4, max=10)
\* (gemini_client.py:54): after the failed attempt attempt_number the
\* retry sleeps multiplier * 2 ^ (attempt_number - 1) seconds, raised to
\* min and cut to max
WaitMultiplier == 1
WaitMin == 4
WaitMax == 10

Max(a, b) == IF a >= b THEN a ELSE b

wait_exponential(attempt_number) ==
    Max(WaitMin, Min(WaitMultiplier * 2 ^ (attempt_number - 1), WaitMax))

\* one attempt of _make_request (gemini_client.py:56-68) under @retry
\* (gemini_client.py:52-55): the attempt returns the response's text, or
\* raises and is tried again with the same argument after the wait, or
\* raises for the last time
make_request_attempt ==
    /\ llm_pc = "request"
    /\ LET attempt == Len(requests) + 1
           sent == [llm EXCEPT !.requests = Append(requests, full_prompt)]
       IN llm' =
            IF transport[attempt] = "ok"
            THEN [sent EXCEPT !.request_result =
                                 [status |-> "returned", attempt |-> attempt,
                                  text |-> response_text],
                              !.pc = "parse"]
            ELSE IF stop(attempt)
            THEN [sent EXCEPT !.request_result =
                                 [status |-> "raised", attempt |-> attempt,
                                  text |-> <<>>],
                              !.pc = "parse"]
            ELSE [sent EXCEPT !.waits = Append(waits,
                                               wait_exponential(attempt))]
    /\ UNCHANGED <<registryVars, stateVars, runVars, historyVars,
                   memory, notification, call>>

\* generate_plan after _make_request ended (gemini_client.py:96-135)
generate_plan_return ==
    /\ llm_pc = "parse"
    /\ llm' =
         [llm EXCEPT
            !.plan_response =
               IF request_result.status = "raised"
               THEN [plan |-> [kind |-> "Error generating plan", text |-> <<>>],
                     tools |-> <<>>,
                     reasoning |-> "Error occurred during planning"]
               ELSE parse_plan(request_result.text),
            !.pc = "planned"]
    /\ UNCHANGED <<registryVars, stateVars, runVars, historyVars,
                   memory, notification, call>>

\* _planning_node after generate_plan returned (core.py:163-166)
planning_takes_plan ==
    /\ llm_pc = "planned"
    /\ selected_tools' = plan_response.tools
    /\ llm' = [llm EXCEPT !.pc = "tool_selection"]
    /\ UNCHANGED <<registryVars, messages, current_phase, tool_results,
                   pending_approvals, session_id, task_id, iteration_count,
                   error_message, reflection, runVars, historyVars,
                   memory, notification, call>>

\* a _planning_node call of a process_message call, with any behaviour of
\* the transport and any response text
InitLLM ==
    /\ AgentInit
    /\ MemoryIdle
    /\ NotifyIdle
    /\ CallIdle
    /\ llm \in [transport : [1..MaxAttempts -> {"ok", "fail"}],
                 response_text : Texts,
                 requests : {<<>>},
                 waits : {<<>>},
                 request_result :
                     {[status |-> "none", attempt |-> 0, text |-> <<>>]},
                 plan_response :
                     {[plan |-> [kind |-> "none", text |-> <<>>],
                       tools |-> <<>>, reasoning |-> "none"]},
                 pc : {"planning"}]

NextLLM ==
    \/ planning_calls_generate_plan /\ UNCHANGED observed
    \/ make_request_attempt /\ UNCHANGED observed
    \/ generate_plan_return /\ UNCHANGED observed
    \/ planning_takes_plan /\ UNCHANGED observed

SpecLLM == InitLLM /\ [][NextLLM]_vars

(***************************************************************************)
(* generate_plan on the response texts that hold several fence markers:    *)
(* the transport answers the first attempt, and the text is any sequence   *)
(* of fence markers, complete JSON objects and prose.                      *)
(***************************************************************************)
\* most tokens of such a response text
MaxFencedLen == 4

FencedTokens == {FenceJson, Fence, Prose, Object(Fields)}

FencedTexts == UNION {[1..n -> FencedTokens] : n \in 0..MaxFencedLen}

InitExtract ==
    /\ AgentInit
    /\ MemoryIdle
    /\ NotifyIdle
    /\ CallIdle
    /\ llm \in [transport : {[i \in 1..MaxAttempts |-> "ok"]},
                 response_text : FencedTexts,
                 requests : {<<>>},
                 waits : {<<>>},
                 request_result :
                     {[status |-> "none", attempt |-> 0, text |-> <<>>]},
                 plan_response :
                     {[plan |-> [kind |-> "none", text |-> <<>>],
                       tools |-> <<>>, reasoning |-> "none"]},
                 pc : {"planning"}]

SpecExtract == InitExtract /\ [][NextLLM]_vars

(***************************************************************************)
(* TTTAgent._notify_phase_change (core.py:77-87): the phase is assigned,   *)
(* then the callbacks registered for it are called one after the other,    *)
(* each inside its own try.  A callback is [coroutine, raises]: whether    *)
(* asyncio.iscoroutinefunction holds of it, and whether calling it raises  *)
(* an Exception.                                                           *)
(***************************************************************************)
\* most callbacks registered for one phase
MaxCallbacks == 2

Callbacks == [coroutine : BOOLEAN, raises : BOOLEAN]

CallbackLists == UNION {[1..n -> Callbacks] : n \in 0..MaxCallbacks}

notify_phase_change_call ==
    /\ notify_pc = "called"
    /\ current_phase' = new_phase
    /\ notification' = [notification EXCEPT !.callbacks_rest = phase_callbacks,
                                            !.pc = "callbacks"]
    /\ UNCHANGED <<registryVars, messages, selected_tools, tool_results,
                   pending_approvals, session_id, task_id, iteration_count,
                   error_message, reflection, runVars, historyVars,
                   memory, llm, call>>

\* except Exception as e: print(...)
caught_never(callback) == FALSE

caught(callback) == TRUE

\* one turn of the loop over the callbacks
callback_step ==
    /\ notify_pc = "callbacks"
    /\ callbacks_rest # <<>>
    /\ LET callback == Head(callbacks_rest)
           index == Len(phase_callbacks) - Len(callbacks_rest) + 1
           called == [notification EXCEPT
                        !.callbacks_called = Append(callbacks_called, index)]
       IN notification' =
            IF ~callback.raises
            THEN [called EXCEPT !.callbacks_rest = Tail(callbacks_rest)]
            ELSE IF caught(callback)
            THEN [called EXCEPT
                    !.callback_errors = Append(callback_errors, index),
                    !.callbacks_rest = Tail(callbacks_rest)]
            ELSE [called EXCEPT !.pc = "raised"]
    /\ UNCHANGED <<registryVars, stateVars, runVars, historyVars,
                   memory, llm, call>>

notify_phase_change_return ==
    /\ notify_pc = "callbacks"
    /\ callbacks_rest = <<>>
    /\ notification' = [notification EXCEPT !.pc = "returned"]
    /\ UNCHANGED <<registryVars, stateVars, runVars, historyVars,
                   memory, llm, call>>

\* a _notify_phase_change call for any phase, with any callbacks
\* registered for it
InitNotify ==
    /\ AgentInit
    /\ MemoryIdle
    /\ LLMIdle
    /\ CallIdle
    /\ notification \in [new_phase : ExecutionPhase,
                          phase_callbacks : CallbackLists,
                          callbacks_rest : {<<>>},
                          callbacks_called : {<<>>},
                          callback_errors : {<<>>},
                          pc : {"called"}]

NextNotify ==
    \/ notify_phase_change_call /\ UNCHANGED observed
    \/ callback_step /\ UNCHANGED observed
    \/ notify_phase_change_return /\ UNCHANGED observed

SpecNotify == InitNotify /\ [][NextNotify]_vars

(***************************************************************************)
(* The registry under any sequence of register_tool, unregister_tool and   *)
(* set_tool_permission calls, starting from the registry of the default    *)
(* tools.  call is the last call with its result.                          *)
(***************************************************************************)
\* number of calls made on the registry
MaxCalls == 3

\* a tool of default_tools.py that the registry above does not hold yet
NewName == "calculate"
RegistryNames == ToolNames \cup {NewName}

Categories == {"filesystem", "utility"}

\* the definitions register_tool is called with
Definitions ==
    {[function |-> f, permission |-> p, category |-> c,
      risk_level |-> IF f = "first" THEN 1 ELSE 3] :
        f \in {"first", "second"}, p \in ToolPermission, c \in Categories}

call_register_tool(name, definition) ==
    /\ calls < MaxCalls
    /\ register_tool(name, definition)
    /\ call' = [op |-> "register_tool", name |-> name,
                result |-> register_tool_result(name),
                number |-> calls + 1]

call_unregister_tool(name) ==
    /\ calls < MaxCalls
    /\ unregister_tool(name)
    /\ call' = [op |-> "unregister_tool", name |-> name,
                result |-> unregister_tool_result(name),
                number |-> calls + 1]

call_set_tool_permission(name, permission) ==
    /\ calls < MaxCalls
    /\ set_tool_permission(name, permission)
    /\ call' = [op |-> "set_tool_permission", name |-> name,
                result |-> set_tool_permission_result(name),
                number |-> calls + 1]

InitRegistry == Init

NextRegistry ==
    \/ /\ \E name \in RegistryNames, definition \in Definitions :
            call_register_tool(name, definition)
       /\ UNCHANGED observed
    \/ /\ \E name \in RegistryNames : call_unregister_tool(name)
       /\ UNCHANGED observed
    \/ /\ \E name \in RegistryNames, permission \in ToolPermission :
            call_set_tool_permission(name, permission)
       /\ UNCHANGED observed

SpecRegistry == InitRegistry /\ [][NextRegistry]_vars

(***************************************************************************)
(* Properties.                                                             *)
(***************************************************************************)
Logged(outcomes) == {i \in DOMAIN exec_log : exec_log[i].outcome \in outcomes}

\* C1: no tool that is in pending_approvals has an entry recorded in
\* tool_results by the Executing phase of the cycle: every tool the phase
\* invoked is outside pending_approvals, and a tool it met in
\* pending_approvals was skipped.
Thm_C1 ==
    \A i \in Logged({"returned", "raised"}) :
        exec_log[i].tool \notin Range(pending_approvals)

\* The Executing phase met a tool that was in pending_approvals and skipped it.
Witness_C1 ==
    /\ pc[1] \in {"executing", "execution_decision"}
    /\ \E i \in Logged({"skipped"}) : exec_log[i].tool \in Range(pending_approvals)

\* C2: iteration_count never exceeds max_iterations, after any sequence of
\* process_message calls.
CE_C2 == iteration_count <= max_iterations

\* C3: a process_message call that has entered AwaitingApproval and finds
\* tools pending at the approval guard returns to its caller with
\* current_phase AwaitingApproval, instead of evaluating the approval check
\* again on its own.
CE_C3 ==
    [][\A r \in Callers :
         (/\ pc[r] = "approval_decision"
          /\ pending_approvals # <<>>
          /\ pc'[r] # pc[r])
         => (pc'[r] = "returned" /\ current_phase' = "awaiting_approval")]_vars

\* C4: once approve_tools has named every pending tool of a run in
\* AwaitingApproval, pending_approvals is empty whenever the approval guard
\* is evaluated next.
CE_C4 ==
    \A r \in Callers :
        (decision = "approved_all" /\ pc[r] = "approval_decision")
        => pending_approvals = <<>>

\* C5: once reject_tools has named every pending tool of a run in
\* AwaitingApproval, the next phase of the run is Planning and
\* iteration_count is what it was.
CE_C5 ==
    [][(/\ decision = "rejected_all"
        /\ current_phase = "awaiting_approval"
        /\ current_phase' # current_phase)
       => (current_phase' = "planning" /\ iteration_count' = iteration_count)]_vars

\* C6: every tool name in pending_approvals is also in selected_tools.
CE_C6 == Range(pending_approvals) \subseteq Range(selected_tools)

\* C7: the ToolSelection phase leaves in selected_tools exactly the names
\* the registry knows, in the order they had, and dropping a name neither
\* sets error_message nor moves the run to Error.
RECURSIVE KnownNames(_)
KnownNames(seq) ==
    IF seq = <<>> THEN <<>>
    ELSE IF Head(seq) \in DOMAIN tools
         THEN <<Head(seq)>> \o KnownNames(Tail(seq))
         ELSE KnownNames(Tail(seq))

Thm_C7 ==
    [][\A r \in Callers :
         (pc[r] = "tool_selection" /\ pc'[r] # pc[r])
         => /\ selected_tools' = KnownNames(selected_tools)
            /\ \A i \in DOMAIN selected_tools' : selected_tools'[i] \in DOMAIN tools
            /\ error_message' = error_message
            /\ current_phase' = "tool_selection"
            /\ pc'[r] = "route_selection"]_vars

\* ToolSelection has dropped an unknown name of the plan and kept a known one.
Witness_C7 ==
    /\ pc[1] = "route_selection"
    /\ UnknownName \in Range(plan_tools)
    /\ selected_tools # <<>>
    /\ Len(selected_tools) < Len(plan_tools)
    /\ UnknownName \notin Range(selected_tools)
    /\ error_message = "None"
    /\ current_phase = "tool_selection"

\* C8: a tool whose capability raises in the Executing phase gets a
\* tool_results entry with success false; the phase goes on through the
\* rest of the batch, giving every tool that is not pending its own entry;
\* error_message is not changed, and with error_message unset the run goes
\* on to Reflecting.
LastOf(i) ==
    \A j \in Logged({"returned", "raised"}) :
        j > i => exec_log[j].tool # exec_log[i].tool

Inv_C8 ==
    \A i \in Logged({"raised"}) :
        /\ exec_log[i].tool \in DOMAIN tool_results
        /\ LastOf(i) => tool_results[exec_log[i].tool] = FALSE
        /\ error_message # "Execution error"
        /\ current_phase = "executing"

Act_C8 ==
    \A r \in Callers :
        /\ (pc[r] = "executing" /\ exec_rest'[r] # exec_rest[r])
           => /\ exec_rest[r] # <<>>
              /\ exec_rest'[r] = Tail(exec_rest[r])
              /\ Head(exec_rest[r]) \notin Range(pending_approvals)
                 => Head(exec_rest[r]) \in DOMAIN tool_results'
              /\ error_message' = error_message
              /\ pc'[r] = "executing"
        /\ (pc[r] = "executing" /\ pc'[r] # pc[r] /\ Logged({"raised"}) # {})
           => (exec_rest[r] = <<>> /\ pc'[r] = "execution_decision")
        /\ (/\ pc[r] = "execution_decision"
            /\ pc'[r] # pc[r]
            /\ Logged({"raised"}) # {}
            /\ error_message = "None")
           => pc'[r] = "reflection"

CE_C9 ==
    [][\A r \in Callers :
         pc[r] \in {"reflection", "error_handling"} => pc'[r] # "raised"]_vars

\* C10: a process_message call in flight works on a state of its own: the
\* session_id and task_id it reads are the ones it was called with, and
\* the messages are those of its own session.
CE_C10 ==
    \A r \in Callers :
        Active(r) => /\ session_id = SessionOf(r)
                     /\ task_id = TaskOf(r)
                     /\ Range(messages) \subseteq {r}

\* The context items of the records the queries of the call returned.
Retrieved ==
    Range(items("conversation", conv_results))
    \cup Range(items("task", task_results))
    \cup Range(items("interaction", interaction_results))

\* the items of the sources other than source
RetrievedBut(source) == {x \in Retrieved : x.type # source}

\* seq holds Min(limit, Cardinality(from)) different items of from, they
\* are lowest-distance items of from, and they are in ascending order of
\* distance
RankedPrefixOf(seq, from) ==
    /\ Len(seq) = Min(limit, Cardinality(from))
    /\ Range(seq) \subseteq from
    /\ \A i, j \in DOMAIN seq : i < j => /\ seq[i] # seq[j]
                                         /\ seq[i].distance <= seq[j].distance
    /\ \A x \in from \ Range(seq) :
         \A i \in DOMAIN seq : seq[i].distance <= x.distance

\* C11: whatever items the three queries return and whatever the limit,
\* retrieve_relevant_context returns min(limit, number of retrieved items)
\* items, they are the lowest-distance ones of the retrieved items, and
\* they are ordered by ascending distance.
CE_C11 ==
    (/\ memory_pc = "returned"
     /\ source_fails = "none")
    => RankedPrefixOf(context, Retrieved)

\* C12: when exactly one of the three queries fails, the call returns the
\* ranked items of the other two sources.
CE_C12 ==
    (/\ memory_pc = "returned"
     /\ source_fails \in Sources
     /\ source_fails = "task" => context_task_id # "None"
     /\ \A i \in DOMAIN interaction_results :
          has_tools_executed(interaction_results[i]))
    => RankedPrefixOf(context, RetrievedBut(source_fails))

\* _make_request has ended.
RequestEnded == llm_pc \notin {"planning", "request"}

\* C13: one _make_request call hands the same prompt to the transport at
\* most 3 times; it ends at the first attempt that succeeds and returns
\* the text of that attempt, and it raises only after three failed
\* attempts; with a transport that fails twice and then succeeds it makes
\* exactly 3 attempts and returns the text.
Thm_C13 ==
    /\ Len(requests) <= 3
    /\ \A i \in DOMAIN requests : requests[i] = full_prompt
    /\ RequestEnded =>
         /\ request_result.attempt = Len(requests)
         /\ \A j \in 1..(Len(requests) - 1) : transport[j] = "fail"
         /\ request_result.status = "returned" =>
              /\ transport[Len(requests)] = "ok"
              /\ request_result.text = response_text
         /\ request_result.status = "raised" =>
              /\ Len(requests) = 3
              /\ transport[3] = "fail"
         /\ transport = <<"fail", "fail", "ok">> =>
              /\ Len(requests) = 3
              /\ request_result.status = "returned"

\* The transport failed twice and succeeded on the third attempt.
Witness_C13 ==
    /\ llm_pc = "parse"
    /\ transport = <<"fail", "fail", "ok">>
    /\ Len(requests) = 3
    /\ request_result = [status |-> "returned", attempt |-> 3,
                         text |-> response_text]

\* C14: when the transport has failed on all 3 attempts of the
\* generate_plan call of _planning_node, the node leaves error_message
\* set and the phase Error.
CE_C14 ==
    (/\ llm_pc = "tool_selection"
     /\ \A i \in DOMAIN transport : transport[i] = "fail")
    => /\ error_message # "None"
       /\ current_phase = "error"

\* a text without any JSON value in it
NoJson(text) == \A i \in DOMAIN text : text[i].kind \in {"fence_json", "fence", "prose"}

\* C15: on a response text that cannot be parsed as structured data,
\* generate_plan returns a structure whose tools is empty, whose plan is
\* the response text as the transport gave it, and whose reasoning says
\* that fallback parsing was used.
CE_C15 ==
    (/\ llm_pc \in {"planned", "tool_selection"}
     /\ request_result.status = "returned"
     /\ NoJson(response_text))
    => /\ plan_response.tools = <<>>
       /\ plan_response.plan = [kind |-> "response_text", text |-> response_text]
       /\ plan_response.reasoning = "Fallback parsing - could not extract JSON"

\* the callbacks in registration order
RegistrationOrder == [i \in DOMAIN phase_callbacks |-> i]

\* C16: a callback that raises does not change the run: the callbacks
\* after it are still called, in registration order, the call returns to
\* the node that made it, and the state it leaves is the one it leaves
\* when no callback raises: the new phase and nothing else changed.
Thm_C16 ==
    /\ notify_pc # "raised"
    /\ \A i \in DOMAIN callbacks_called : callbacks_called[i] = i
    /\ notify_pc = "returned" =>
         /\ callbacks_called = RegistrationOrder
         /\ current_phase = new_phase
         /\ selected_tools = <<>>
         /\ pending_approvals = <<>>
         /\ DOMAIN tool_results = {}
         /\ iteration_count = 0
         /\ error_message = "None"
         /\ reflection = "None"
         /\ messages = <<>>

\* The first of two callbacks raised and the second was still called.
Witness_C16 ==
    /\ notify_pc = "returned"
    /\ Len(phase_callbacks) = 2
    /\ phase_callbacks[1].raises
    /\ callbacks_called = <<1, 2>>
    /\ callback_errors = <<1>>

\* the step is a call of op on the registry
Called(op) == calls' # calls /\ call'.op = op

\* the names listed under some category
Categorized == UNION {Range(categories[c]) : c \in DOMAIN categories}

\* C17: register_tool with a name that is already registered fails with
\* DuplicateTool and leaves the name index and the category index as they
\* were, the registered definition included.
CE_C17 ==
    [][(Called("register_tool") /\ call'.name \in DOMAIN tools)
       => /\ call'.result = "DuplicateTool"
          /\ tools' = tools
          /\ tool_names' = tool_names
          /\ categories' = categories]_vars

\* C18: unregister_tool(name) returns True exactly when name was
\* registered; after it has_tool(name) is false, get_tool(name) is None,
\* name is in no category list and not in list_tools, and the other tools
\* keep their definitions and index entries; on an unknown name it
\* returns False and changes nothing.
CE_C18 ==
    [][Called("unregister_tool")
       => LET name == call'.name IN
            /\ call'.result = (IF name \in DOMAIN tools THEN "True" ELSE "False")
            /\ name \notin DOMAIN tools'
            /\ name \notin Range(tool_names')
            /\ \A c \in DOMAIN categories' : name \notin Range(categories'[c])
            /\ \A n \in DOMAIN tools \ {name} :
                 n \in DOMAIN tools' /\ tools'[n] = tools[n]
            /\ tool_names' = Without(tool_names, {name})
            /\ DOMAIN categories' = DOMAIN categories
            /\ \A c \in DOMAIN categories :
                 categories'[c] = Without(categories[c], {name})
            /\ name \notin DOMAIN tools => UNCHANGED registryVars]_vars

RECURSIVE Remaining(_, _)
Remaining(seq, names) ==
    IF seq = <<>> THEN <<>>
    ELSE IF Head(seq) \in names THEN Remaining(Tail(seq), names)
         ELSE <<Head(seq)>> \o Remaining(Tail(seq), names)

SelectedRequiresConfirmation ==
    \E i \in DOMAIN selected_tools :
        /\ selected_tools[i] \in DOMAIN tools
        /\ tools[selected_tools[i]].permission = "require_confirmation"

\* C22: after ToolSelection, a run whose selected_tools is empty goes to
\* Completed without invoking a tool; a run with selected tools goes to
\* AwaitingApproval exactly when one of them has permission
\* REQUIRE_CONFIRMATION in the registry and to Executing exactly when none
\* has.
Thm_C22 ==
    [][\A r \in Callers :
         /\ (pc[r] = "route_selection" /\ pc'[r] # pc[r])
            => /\ selected_tools = <<>> => pc'[r] = "end"
               /\ selected_tools # <<>>
                  => /\ pc'[r] = "approval_check"
                        <=> SelectedRequiresConfirmation
                     /\ pc'[r] = "execution"
                        <=> ~SelectedRequiresConfirmation
               /\ tool_results' = tool_results
               /\ exec_log' = exec_log
               /\ current_phase' = current_phase
         /\ (pc[r] = "end" /\ pc'[r] # pc[r])
            => /\ current_phase' = "completed"
               /\ tool_results' = tool_results
               /\ pc'[r] = "returned"
         /\ (pc[r] = "approval_check" /\ pc'[r] # pc[r])
            => current_phase' = "awaiting_approval"
         /\ (pc[r] = "execution" /\ pc'[r] # pc[r])
            => current_phase' = "executing"]_vars

\* The routing after ToolSelection has sent a run that selected an
\* auto-approved tool and a tool requiring confirmation to the approval
\* check.
Witness_C22 ==
    /\ pc[1] = "approval_check"
    /\ current_phase = "tool_selection"
    /\ selected_tools = <<"read_file", "write_file">>
    /\ has_tool("read_file") /\ has_tool("write_file")
    /\ get_tool("read_file").permission = "auto_approve"
    /\ get_tool("write_file").permission = "require_confirmation"

\* C23: when _planning_node has failed (it has set error_message and the
\* phase Error), the run does not enter ToolSelection, AwaitingApproval or
\* Executing next.
CE_C23 ==
    [][\A r \in Callers :
         (/\ pc[r] = "tool_selection"
          /\ current_phase = "error"
          /\ error_message = "Planning error"
          /\ pc'[r] # pc[r])
         => current_phase' \notin {"tool_selection", "awaiting_approval",
                                   "executing"}]_vars

\* C24: every Reflecting phase is followed by one evaluation of the guard,
\* which sends the run back to Planning exactly when iteration_count is
\* below max_iterations and the reflection does not indicate completion,
\* and to Completed otherwise.
CE_C24 ==
    [][\A r \in Callers :
         /\ (pc[r] = "reflection" /\ pc'[r] # pc[r])
            => /\ current_phase' = "reflecting"
               /\ pc'[r] = "should_continue"
         /\ (pc[r] = "should_continue" /\ pc'[r] # pc[r])
            => LET goes_on == /\ iteration_count < max_iterations
                              /\ ~indicates_completion(reflection)
               IN /\ goes_on => pc'[r] = "planning"
                  /\ ~goes_on => pc'[r] = "end"]_vars

\* C25: iteration_count changes only in a Reflecting phase that completes,
\* and then by exactly 1; a Reflecting phase whose memory write fails, every
\* other phase, approve_tools and reject_tools leave it as it was.
CE_C25 ==
    [][iteration_count' # iteration_count
       => \E r \in Callers :
            /\ pc[r] = "reflection"
            /\ pc'[r] = "should_continue"
            /\ iteration_count' = iteration_count + 1]_vars

\* C26: a process_message call one of whose phases has set error_message
\* and moved the run to Error returns after exactly one store_error call,
\* and it does return: no exception leaves it.
CE_C26 ==
    \A r \in Callers :
        observed.failed # "none"
        => /\ pc[r] = "returned" => /\ observed.store_error = 1
                                    /\ current_phase = "completed"
           /\ pc[r] # "raised"

\* C27: current_phase only takes a value through a notification of that
\* value: once the first phase was announced, current_phase is the phase
\* of the last _notify_phase_change call.
CE_C27 ==
    current_phase # observed.notified
    => (current_phase = "idle" /\ observed.notified = "none")

\* C28: when a selected tool is no longer registered, the approval check
\* and the Executing phase that meet it move the run to Error: the
\* exception does not leave process_message, and the tool gets no
\* tool_results entry.
CE_C28 ==
    [][\A r \in Callers :
         /\ (/\ pc[r] = "approval_check"
             /\ pc'[r] # pc[r]
             /\ \E i \in DOMAIN selected_tools : ~has_tool(selected_tools[i]))
            => /\ pc'[r] # "raised"
               /\ current_phase' = "error"
         /\ (/\ pc[r] = "executing"
             /\ exec_rest'[r] # exec_rest[r]
             /\ ~has_tool(Head(exec_rest[r]))
             /\ Head(exec_rest[r]) \notin Range(pending_approvals))
            => /\ tool_results' = tool_results
               /\ current_phase' = "error"]_vars

\* C29: a tool whose permission in the registry is REQUIRE_CONFIRMATION
\* when the Executing phase reaches it is skipped, unless approve_tools
\* named it in the cycle.
CE_C29 ==
    [][\A r \in Callers :
         (/\ pc[r] = "executing"
          /\ exec_rest'[r] # exec_rest[r]
          /\ has_tool(Head(exec_rest[r]))
          /\ get_tool(Head(exec_rest[r])).permission = "require_confirmation"
          /\ Head(exec_rest[r]) \notin observed.approved)
         => /\ exec_log' = Append(exec_log, [tool |-> Head(exec_rest[r]),
                                             outcome |-> "skipped"])
            /\ tool_results' = tool_results]_vars

\* C30: after ToolSelection selected_tools holds every tool name at most
\* once, and no tool is invoked twice in one Executing phase.
CE_C30 ==
    /\ \A r \in Callers :
         pc[r] = "route_selection"
         => \A i, j \in DOMAIN selected_tools :
              i # j => selected_tools[i] # selected_tools[j]
    /\ \A i, j \in Logged({"returned", "raised"}) :
         i # j => exec_log[i].tool # exec_log[j].tool

\* C31: every tool name that has an entry in tool_results is in
\* selected_tools.
CE_C31 == DOMAIN tool_results \subseteq Range(selected_tools)

\* the place of a source in the priority order conversation, interaction,
\* task
SourcePriority(type) ==
    CASE type = "conversation" -> 1
      [] type = "interaction" -> 2
      [] type = "task" -> 3

\* of two items of equal distance, x is the one that goes first
GoesFirst(x, y) ==
    \/ SourcePriority(x.type) < SourcePriority(y.type)
    \/ x.type = y.type /\ x.n < y.n

\* C32: in the list a retrieve_relevant_context call returns, two items of
\* equal distance stand in the order conversation, interaction, task, and
\* within one source in their retrieval order; an item cut off by the
\* limit comes after every returned item of its distance in that order.
CE_C32 ==
    (/\ memory_pc = "returned"
     /\ ~raises_in_try)
    => /\ \A i, j \in DOMAIN context :
            (i < j /\ context[i].distance = context[j].distance)
            => GoesFirst(context[i], context[j])
       /\ \A x \in Retrieved \ Range(context) :
            \A i \in DOMAIN context :
                context[i].distance = x.distance => GoesFirst(context[i], x)

\* C33: every wait between two attempts of one _make_request call is at
\* least 4 and at most 10 seconds, and the wait before the third attempt is
\* greater than the wait before the second.
CE_C33 ==
    /\ \A i \in DOMAIN waits : waits[i] >= 4 /\ waits[i] <= 10
    /\ Len(waits) >= 2 => waits[2] > waits[1]

\* the place of the first fence marker of any kind in the response text,
\* and of the next one after it; 0 when there is none
FirstFence == find(response_text, {"fence_json", "fence"}, 1)
NextFence ==
    IF FirstFence = 0 THEN 0
    ELSE find(response_text, {"fence_json", "fence"}, FirstFence + 1)

\* C34: generate_plan tries, in this order, the whole text, the first
\* block fenced with the json label, and the first fenced block of any
\* kind, which is the text between the first opening fence and the next
\* closing fence, and returns the first that parses.  So for a text that
\* does not parse as a whole and has no labelled fence, but whose first
\* fenced block is a JSON object, it returns that object.
CE_C34 ==
    (/\ llm_pc = "planned"
     /\ request_result.status = "returned"
     /\ json_loads(response_text) = "error"
     /\ find(response_text, {"fence_json"}, 1) = 0
     /\ NextFence # 0
     /\ json_loads(SubSeq(response_text, FirstFence + 1, NextFence - 1))
           = "object")
    => /\ plan_response.plan = [kind |-> "parsed", text |-> <<>>]
       /\ plan_response.tools = ObjectTools
       /\ plan_response.reasoning = "parsed"

\* C35: a tool whose registry permission is BLOCKED is never invoked by the
\* Executing phase and has no entry in tool_results, whether or not the
\* plan selects it and whatever approve_tools calls are made.  (No step of
\* this specification sets a permission to BLOCKED, so a tool that is
\* blocked now has been blocked since before the first message.)
CE_C35 ==
    \A n \in DOMAIN tools :
        tools[n].permission = "blocked"
        => /\ n \notin DOMAIN tool_results
           /\ \A i \in Logged({"returned", "raised"}) : exec_log[i].tool # n

\* C36: a process_message call in which no phase fails never goes through
\* the Error phase and never calls store_error, whatever happened in the
\* calls before it on the same agent.
CE_C36 ==
    \A r \in Callers :
        (Active(r) /\ observed.failed = "none")
        => /\ pc[r] # "error_handling"
           /\ observed.store_error = 0
           /\ observed.notified # "error"

\* C37: after any sequence of register_tool, unregister_tool and
\* set_tool_permission calls the category index agrees with the name
\* index: a name is in get_tools_by_category(c) exactly when a tool of that
\* name is registered with category c, and no name occurs twice in a
\* category list.
CE_C37 ==
    \A c \in Categories :
        /\ \A n \in RegistryNames :
              n \in Range(get_tools_by_category(c))
              <=> (has_tool(n) /\ get_tool(n).category = c)
        /\ \A i, j \in DOMAIN get_tools_by_category(c) :
              get_tools_by_category(c)[i] = get_tools_by_category(c)[j]
              => i = j

\* C38: every record that store_interaction or store_error adds to the
\* interaction collection can be retrieved without making the call fail:
\* when the interaction query returns a record written by store_error and
\* no query fails, retrieve_relevant_context still returns context items
\* whenever the conversation query matched some, instead of the empty list.
CE_C38 ==
    (/\ memory_pc = "returned"
     /\ source_fails = "none"
     /\ conv_results # <<>>
     /\ \E i \in DOMAIN interaction_results :
          interaction_results[i].record = "error")
    => context # <<>>

\* C39: whenever process_message returns, current_phase is Completed, also
\* for a call that went through Error, and Completed was announced exactly
\* once in that call, after every other phase notification of the call: it
\* is the last phase announced, and no step before the return announces it.
Thm_C39 ==
    \A r \in Callers :
        /\ pc[r] = "returned" => /\ current_phase = "completed"
                                 /\ observed.notified = "completed"
                                 /\ observed.completed = 1
        /\ Active(r) => observed.completed = 0

\* A call that went through Error and stored the error has returned.
Witness_C39 ==
    /\ pc[1] = "returned"
    /\ observed.store_error = 1
    /\ error_message # "None"
    /\ current_phase = "completed"

\* the transition after Reflecting that an iteration count and a
\* reflection text stand for
TransitionOf(count, text) ==
    IF count >= max_iterations \/ indicates_completion(text) THEN "end"
    ELSE "planning"

\* C40: the decision taken after Reflecting depends only on
\* iteration_count, max_iterations and the reflection text: whatever the
\* value of the completed flag that reflect_on_results returned, the run
\* takes the transition of its iteration_count and reflection, so two runs
\* that differ only in the flag take the same one.
Thm_C40 ==
    [][\A r \in Callers :
         (pc[r] = "should_continue" /\ pc'[r] # pc[r])
         => /\ observed.reflect_completed \in {"True", "False"}
            /\ pc'[r] = TransitionOf(iteration_count, reflection)]_vars

\* reflect_on_results returned completed = True with a reflection that does
\* not speak of completion, below max_iterations, and the run went on to
\* Planning.
Witness_C40 ==
    /\ pc[1] = "planning"
    /\ observed.reflect_completed = "True"
    /\ reflection = "more steps needed"
    /\ iteration_count = 1
    /\ observed.notified = "reflecting"

=============================================================================
